---- MODULE Spec2Model ----
(***************************************************************************)
(* Model of the Stage 2 sourcing pipeline of luillyfe/sourcing-agent:      *)
(* RunStage2 and the four stage functions it chains (analyzeRequirements,  *)
(* generateSearchStrategy, findAndEnrichCandidates, rankAndPresent with    *)
(* createFallbackResult), the GitHub client calls they make and the        *)
(* repository relevance heuristic.                                         *)
(*                                                                         *)
(* Numbers: every score is an integer number of thousandths (0.5 is 500,   *)
(* 70.0 is 70000).  Text compared by the code letter by letter (skills,    *)
(* keywords, repository fields) is a sequence of one-character strings;    *)
(* text the code only copies is a TLA+ string.                             *)
(*                                                                         *)
(* Specifications: Spec is a run of RunStage2.  SpecRanking calls          *)
(* rankAndPresent and createFallbackResult on their own, on lists of 10 to *)
(* 13 candidates; SpecRelevance calls analyzeRepositoryRelevance on its    *)
(* own, on every repository, skill list and keyword list of its pools.     *)
(***************************************************************************)
EXTENDS Integers, Sequences, FiniteSets, TLC

(***************************************************************************)
(* Bounds of the model.                                                    *)
(***************************************************************************)
\* longest list of fallback queries a generated strategy carries
MaxFallbacks == 2
\* most users one search response of the backend lists
MaxUsers == 2
\* most candidates a parsed ranking output lists
MaxRanked == 2

(***************************************************************************)
(* Program constants.                                                      *)
(***************************************************************************)
\* result ceiling of every search attempt
SearchMaxResults == 15
\* repositories requested per candidate
ReposPerCandidate == 10
\* createFallbackResult presents at most this many candidates
FallbackTopN == 10
\* Client.SearchDevelopers defaults
DefaultMinRepos == 5
DefaultMaxResults == 10
\* relevance increments, cap and threshold, in thousandths
LanguageWeight == 300
KeywordWeight == 200
TopicWeight == 150
StarsBonus == 100
PopularStars == 50
ScoreCap == 1000
RelevanceThreshold == 300
\* initial match score: base and increment, in thousandths
BaseMatchScore == 500
RelevantRepoBonus == 200
\* createFallbackResult scales InitialMatchScore by this factor
FallbackScale == 100
\* ranking weights, in tenths
SkillsWeight == 4
ReposWeight == 3
ExperienceWeight == 2
QualityWeight == 1
WeightDenominator == 10

FallbackQuality == "Fallback (Ranking Unavailable)"
FallbackReasoning == "Ranking step unavailable; score is based on initial keyword match."

(***************************************************************************)
(* Text helpers (strings.ToLower, strings.EqualFold, strings.Contains).    *)
(***************************************************************************)
ToLowerChar(c) ==
  CASE c = "G" -> "g"
    [] c = "O" -> "o"
    [] c = "A" -> "a"
    [] c = "P" -> "p"
    [] c = "I" -> "i"
    [] OTHER -> c

ToLower(s) ==
  [i \in 1..Len(s) |-> ToLowerChar(s[i])]

EqualFold(a, b) ==
  ToLower(a) = ToLower(b)

Contains(s, sub) ==
  \E i \in 0..(Len(s) - Len(sub)) : SubSeq(s, i + 1, i + Len(sub)) = sub

RECURSIVE SeqSum(_)
SeqSum(s) ==
  IF s = <<>> THEN 0 ELSE Head(s) + SeqSum(Tail(s))

\* all sequences over S of length at most n
SeqsUpTo(S, n) ==
  UNION {[1..k -> S] : k \in 0..n}

(***************************************************************************)
(* Texts the model compares letter by letter.                              *)
(***************************************************************************)
TxtGo == <<"G", "o">>
TxtGoLower == <<"g", "o">>
TxtApi == <<"a", "p", "i">>
TxtApiUpper == <<"A", "P", "I">>
TxtGoApi == <<"g", "o", "-", "a", "p", "i">>
TxtGoSpaceApi == <<"g", "o", " ", "a", "p", "i">>
TxtCli == <<"c", "l", "i">>
TxtEmpty == <<>>

(***************************************************************************)
(* What an inference call (llm.Client.CallAPI) can hand back: a transport   *)
(* error, text that json.Unmarshal rejects, or text that parses to a value. *)
(***************************************************************************)
TransportError == [kind |-> "transport"]
Unparseable == [kind |-> "garbage"]
Parsed(v) == [kind |-> "json", value |-> v]

\* Requirements values the first inference call can parse to
\* (Requirements, src/pkg/agent/types.go:4-12; only the fields the pipeline reads)
RequirementsPool ==
  { [RequiredSkills |-> <<TxtGo>>, ExperienceLevel |-> "",
     UnclearRequest |-> FALSE, ClarificationQuestion |-> ""],
    [RequiredSkills |-> <<TxtGoLower, TxtGo>>, ExperienceLevel |-> "Senior",
     UnclearRequest |-> FALSE, ClarificationQuestion |-> ""],
    [RequiredSkills |-> <<>>, ExperienceLevel |-> "Senior",
     UnclearRequest |-> FALSE, ClarificationQuestion |-> ""],
    [RequiredSkills |-> <<>>, ExperienceLevel |-> "",
     UnclearRequest |-> TRUE, ClarificationQuestion |-> "What is the role?"],
    [RequiredSkills |-> <<TxtGo>>, ExperienceLevel |-> "Senior",
     UnclearRequest |-> TRUE, ClarificationQuestion |-> "Which city?"] }

\* SearchQuery values (src/pkg/agent/types.go:23-28) a generated strategy can carry
PrimaryPool ==
  { [Language |-> "go", Location |-> "lima", Rationale |-> ""],
    [Language |-> "", Location |-> "lima", Rationale |-> ""] }

FallbackPool ==
  { [Language |-> "go", Location |-> "peru", Rationale |-> "widen to the country"],
    [Language |-> "go", Location |-> "", Rationale |-> "try this one first"] }

\* repository keywords and minimum repository count a strategy can carry
FiltersPool ==
  { [Keywords |-> <<>>, MinRepos |-> 0],
    [Keywords |-> <<TxtApi>>, MinRepos |-> 3] }

\* SearchStrategy values (src/pkg/agent/types.go:15-21) the second call can parse to
StrategyPool ==
  { [PrimarySearch |-> p, FallbackSearches |-> fs,
     Keywords |-> f.Keywords, MinRepos |-> f.MinRepos] :
      p \in PrimaryPool, fs \in SeqsUpTo(FallbackPool, MaxFallbacks), f \in FiltersPool }

(***************************************************************************)
(* Validation of parsed values.  The Validate methods are not among the    *)
(* source files; their tests are (src/pkg/github/client_test.go:184-296).  *)
(***************************************************************************)
RequirementsValidate(r) ==
  r.RequiredSkills # <<>> \/ r.UnclearRequest

StrategyValidate(s) ==
  s.PrimarySearch.Language # ""

EnrichedValidate(e) ==
  ~e.CandidatesIsNil

(***************************************************************************)
(* The profile-search backend (github.Client).                             *)
(***************************************************************************)
\* logins the backend knows, in the order a search response lists them
UserPool == <<"alice", "bob", "carol", "dave">>

\* what GET /search/users can answer: a failure, or the first n logins, the
\* GET /users/<login> detail lookup of the first of which may fail
SearchResponses ==
  {[status |-> "error", items |-> <<>>, detailFails |-> {}]}
    \cup {[status |-> "ok", items |-> SubSeq(UserPool, 1, n), detailFails |-> F] :
            n \in 0..MaxUsers, F \in {{}, {UserPool[1]}}}

Candidate(login) ==
  [Username |-> login, Name |-> login, Location |-> "Remote",
   GitHubURL |-> <<"https://github.com/", login>>]

\* the loop of Client.SearchDevelopers over the response items
RECURSIVE CollectCandidates(_, _, _, _)
CollectCandidates(items, detailFails, maxResults, acc) ==
  IF items = <<>> \/ Len(acc) >= maxResults THEN acc
  ELSE IF Head(items) \in detailFails
       THEN CollectCandidates(Tail(items), detailFails, maxResults, acc)
       ELSE CollectCandidates(Tail(items), detailFails, maxResults,
                              Append(acc, Candidate(Head(items))))

\* the query Client.SearchDevelopers sends for a ToolInput
SearchRequest(input) ==
  [language |-> input.Language,
   repos |-> IF input.MinRepos = 0 THEN DefaultMinRepos ELSE input.MinRepos,
   location |-> input.Location,
   per_page |-> 100]

\* mutation of SearchDevelopers: the loop over the items never breaks
SearchDevelopersUncapped(input, response) ==
  LET cands == CollectCandidates(response.items, response.detailFails,
                                 Len(response.items), <<>>)
  IN IF response.status = "error"
     THEN [err |-> TRUE, resultIsNil |-> TRUE, Candidates |-> <<>>, TotalFound |-> 0]
     ELSE [err |-> FALSE, resultIsNil |-> FALSE, Candidates |-> cands, TotalFound |-> Len(cands)]

\* mutation of SearchDevelopers: a search that collected nobody answers with
\* no result and no error
SearchDevelopersNilOnEmpty(input, response) ==
  LET maxResults == IF input.MaxResults = 0 THEN DefaultMaxResults ELSE input.MaxResults
      cands == CollectCandidates(response.items, response.detailFails, maxResults, <<>>)
  IN IF response.status = "error"
     THEN [err |-> TRUE, resultIsNil |-> TRUE, Candidates |-> <<>>, TotalFound |-> 0]
     ELSE IF cands = <<>>
     THEN [err |-> FALSE, resultIsNil |-> TRUE, Candidates |-> <<>>, TotalFound |-> 0]
     ELSE [err |-> FALSE, resultIsNil |-> FALSE, Candidates |-> cands, TotalFound |-> Len(cands)]

\* Client.SearchDevelopers: (result, err) for a ToolInput and a backend answer
SearchDevelopers(input, response) ==
  LET maxResults == IF input.MaxResults = 0 THEN DefaultMaxResults ELSE input.MaxResults
      cands == CollectCandidates(response.items, response.detailFails, maxResults, <<>>)
  IN IF response.status = "error"
     THEN [err |-> TRUE, resultIsNil |-> TRUE, Candidates |-> <<>>, TotalFound |-> 0]
     ELSE [err |-> FALSE, resultIsNil |-> FALSE, Candidates |-> cands, TotalFound |-> Len(cands)]

\* github.Repository values (only the fields the agent reads)
RepoPlain ==
  [Name |-> <<"x">>, Description |-> TxtEmpty, Language |-> TxtGo, Stars |-> 10, Topics |-> <<>>]
RepoApi ==
  [Name |-> TxtGoApi, Description |-> TxtEmpty, Language |-> TxtEmpty, Stars |-> 80, Topics |-> <<>>]
RepoStrong ==
  [Name |-> <<"s">>, Description |-> TxtApiUpper, Language |-> TxtGo, Stars |-> 51,
   Topics |-> <<TxtApiUpper>>]

\* what Client.GetDeveloperRepositories can answer
RepoResponses ==
  { [err |-> TRUE, repos |-> <<>>],
    [err |-> FALSE, repos |-> <<>>],
    [err |-> FALSE, repos |-> <<RepoPlain>>],
    [err |-> FALSE, repos |-> <<RepoApi>>],
    [err |-> FALSE, repos |-> <<RepoPlain, RepoStrong>>] }

(***************************************************************************)
(* analyzeRepositoryRelevance.                                             *)
(***************************************************************************)
\* reasons of the language loop
LanguageReasons(repo, requiredSkills) ==
  SelectSeq([i \in 1..Len(requiredSkills) |-> <<"Uses", requiredSkills[i]>>],
            LAMBDA r : EqualFold(repo.Language, r[2]))

\* reasons of the name/description loop
KeywordReasons(repo, keywords) ==
  LET repoText == ToLower(repo.Name \o <<" ">> \o repo.Description)
  IN SelectSeq([i \in 1..Len(keywords) |-> <<"Contains", keywords[i]>>],
               LAMBDA r : Contains(repoText, ToLower(r[2])))

\* mutation of TopicMatches: the keyword has to be the whole topic tag
TopicMatchesWhole(topic, keyword) ==
  EqualFold(topic, keyword)

\* the test of the topic loop
TopicMatches(topic, keyword) ==
  Contains(ToLower(topic), ToLower(keyword))

\* reasons of the topic loop: one per (topic, keyword) pair that matches
RECURSIVE TopicReasons(_, _)
TopicReasons(topics, keywords) ==
  IF topics = <<>> THEN <<>>
  ELSE SelectSeq([i \in 1..Len(keywords) |-> <<"Topic", Head(topics), keywords[i]>>],
                 LAMBDA r : TopicMatches(r[2], r[3]))
       \o TopicReasons(Tail(topics), keywords)

\* mutation of IsPopular: 50 stars are enough
IsPopularFromThreshold(repo) ==
  repo.Stars >= PopularStars

\* the popularity test
IsPopular(repo) ==
  repo.Stars > PopularStars

\* mutation of CapScore: the cap is forgotten
CapScoreForgotten(sum) ==
  sum

\* the cap of the score
CapScore(sum) ==
  IF sum > ScoreCap THEN ScoreCap ELSE sum

\* float64 addition rounds 0.2 + 0.1 to 0.30000000000000004, which the
\* comparison with 0.3 sees; no other sum of the increments within the
\* model's bounds compares differently from its decimal value
RoundsAbove(a, b, t, s) ==
  a = 0 /\ b = 1 /\ t = 0 /\ s = 1

analyzeRepositoryRelevance(repo, requiredSkills, keywords) ==
  LET a == Len(LanguageReasons(repo, requiredSkills))
      b == Len(KeywordReasons(repo, keywords))
      t == Len(TopicReasons(repo.Topics, keywords))
      s == IF IsPopular(repo) THEN 1 ELSE 0
      sum == a * LanguageWeight + b * KeywordWeight + t * TopicWeight + s * StarsBonus
  IN [Score |-> CapScore(sum),
      Above |-> sum <= ScoreCap /\ RoundsAbove(a, b, t, s),
      Reasons |-> LanguageReasons(repo, requiredSkills)
                    \o KeywordReasons(repo, keywords)
                    \o [i \in 1..t |-> <<"Topic", TopicReasons(repo.Topics, keywords)[i][2]>>]
                    \o (IF s = 1 THEN << <<"Popular project">> >> ELSE <<>>)]

\* mutation of AboveThreshold: a score of exactly 0.3 passes
AboveThresholdInclusive(analysis) ==
  analysis.Score >= RelevanceThreshold

\* analysis.Score > 0.3
AboveThreshold(analysis) ==
  analysis.Score > RelevanceThreshold
    \/ (analysis.Score = RelevanceThreshold /\ analysis.Above)

(***************************************************************************)
(* Stage 1 and stage 2: the two planning inference calls.                  *)
(***************************************************************************)
ZeroRequirements ==
  [RequiredSkills |-> <<>>, ExperienceLevel |-> "",
   UnclearRequest |-> FALSE, ClarificationQuestion |-> ""]

ZeroStrategy ==
  [PrimarySearch |-> [Language |-> "", Location |-> "", Rationale |-> ""],
   FallbackSearches |-> <<>>, Keywords |-> <<>>, MinRepos |-> 0]

RequirementsResponses ==
  {TransportError, Unparseable} \cup {Parsed(r) : r \in RequirementsPool}

StrategyResponses ==
  {TransportError, Unparseable} \cup {Parsed(st) : st \in StrategyPool}

\* mutation of analyzeRequirements: an empty skill list is rejected even when
\* the request is marked unclear
analyzeRequirementsSkillsOnly(resp) ==
  IF resp.kind = "transport"
  THEN [value |-> ZeroRequirements, err |-> <<"failed to call LLM">>]
  ELSE IF resp.kind = "garbage"
  THEN [value |-> ZeroRequirements, err |-> <<"failed to parse requirements JSON">>]
  ELSE IF resp.value.RequiredSkills = <<>>
  THEN [value |-> ZeroRequirements, err |-> <<"invalid requirements">>]
  ELSE [value |-> resp.value, err |-> <<>>]

\* analyzeRequirements: (requirements, err) for the answer of the inference call;
\* err is the chain of wrapped messages, empty for nil
analyzeRequirements(resp) ==
  IF resp.kind = "transport"
  THEN [value |-> ZeroRequirements, err |-> <<"failed to call LLM">>]
  ELSE IF resp.kind = "garbage"
  THEN [value |-> ZeroRequirements, err |-> <<"failed to parse requirements JSON">>]
  ELSE IF ~RequirementsValidate(resp.value)
  THEN [value |-> ZeroRequirements, err |-> <<"invalid requirements">>]
  ELSE [value |-> resp.value, err |-> <<>>]

\* mutation of generateSearchStrategy: the parsed strategy is not validated
generateSearchStrategyUnvalidated(resp) ==
  IF resp.kind = "transport"
  THEN [value |-> ZeroStrategy, err |-> <<"failed to call LLM">>]
  ELSE IF resp.kind = "garbage"
  THEN [value |-> ZeroStrategy, err |-> <<"failed to parse strategy JSON">>]
  ELSE [value |-> resp.value, err |-> <<>>]

\* mutation of generateSearchStrategy: an answer that cannot be used is
\* replaced by a strategy of its own
generateSearchStrategyRecovers(resp) ==
  IF resp.kind = "json" /\ StrategyValidate(resp.value)
  THEN [value |-> resp.value, err |-> <<>>]
  ELSE [value |-> CHOOSE st \in StrategyPool : TRUE, err |-> <<>>]

\* generateSearchStrategy: (strategy, err) for the answer of the inference call
generateSearchStrategy(resp) ==
  IF resp.kind = "transport"
  THEN [value |-> ZeroStrategy, err |-> <<"failed to call LLM">>]
  ELSE IF resp.kind = "garbage"
  THEN [value |-> ZeroStrategy, err |-> <<"failed to parse strategy JSON">>]
  ELSE IF ~StrategyValidate(resp.value)
  THEN [value |-> ZeroStrategy, err |-> <<"invalid strategy">>]
  ELSE [value |-> resp.value, err |-> <<>>]

(***************************************************************************)
(* Stage 4: ranking.                                                       *)
(***************************************************************************)
ZeroBreakdown ==
  [RequiredSkillsScore |-> 0, RepositoryRelevanceScore |-> 0,
   ExperienceScore |-> 0, ProfileQualityScore |-> 0]

ZeroSummary ==
  [TotalCandidatesFound |-> 0, CandidatesPresented |-> 0,
   AverageMatchScore |-> 0, SearchQuality |-> ""]

NilResult ==
  [isNil |-> TRUE, TopCandidates |-> <<>>, Summary |-> ZeroSummary]

\* RankedCandidate values a parsed ranking output can list: the model's own
\* rank and final_match_score are arbitrary
RankedPool ==
  { [Rank |-> 1, Username |-> "alice", FinalMatchScore |-> 950,
     MatchBreakdown |-> [RequiredSkillsScore |-> 400, RepositoryRelevanceScore |-> 300,
                         ExperienceScore |-> 200, ProfileQualityScore |-> 50],
     MatchReasoning |-> "Strong match", TopRelevantProjects |-> <<>>],
    [Rank |-> 7, Username |-> "carol", FinalMatchScore |-> 0,
     MatchBreakdown |-> [RequiredSkillsScore |-> 500, RepositoryRelevanceScore |-> 0,
                         ExperienceScore |-> 500, ProfileQualityScore |-> 500],
     MatchReasoning |-> "Partial match", TopRelevantProjects |-> <<>>] }

SummaryPool ==
  { [TotalCandidatesFound |-> 10, CandidatesPresented |-> 1,
     AverageMatchScore |-> 800, SearchQuality |-> "High"] }

RankingResponses ==
  {TransportError, Unparseable}
    \cup {Parsed([isNil |-> FALSE, TopCandidates |-> tc, Summary |-> sm]) :
            tc \in SeqsUpTo(RankedPool, MaxRanked), sm \in SummaryPool}

\* mutation of WeightedScore: the first two weights are swapped
WeightedScoreSwapped(bd) ==
  (bd.RequiredSkillsScore * ReposWeight
     + bd.RepositoryRelevanceScore * SkillsWeight
     + bd.ExperienceScore * ExperienceWeight
     + bd.ProfileQualityScore * QualityWeight) \div WeightDenominator

\* the weighted sum of rankAndPresent
WeightedScore(bd) ==
  (bd.RequiredSkillsScore * SkillsWeight
     + bd.RepositoryRelevanceScore * ReposWeight
     + bd.ExperienceScore * ExperienceWeight
     + bd.ProfileQualityScore * QualityWeight) \div WeightDenominator

\* mutation of Less: the lower score first
LessAscending(x, y) ==
  x.FinalMatchScore < y.FinalMatchScore

\* the less function both sorts hand to sort.Slice: the higher score first
Less(x, y) ==
  x.FinalMatchScore > y.FinalMatchScore

\* sort.Slice sorts a slice of at most this many elements by insertion
MaxInsertion == 12

\* the shortest slice sort.Slice partitions before it sorts by insertion
LongSlice == MaxInsertion + 1

\* insertion sort: the element moves left while it is less than its neighbour
RECURSIVE InsertByScore(_, _)
InsertByScore(sorted, c) ==
  IF sorted = <<>> THEN <<c>>
  ELSE LET last == sorted[Len(sorted)]
       IN IF Less(c, last)
          THEN Append(InsertByScore(SubSeq(sorted, 1, Len(sorted) - 1), c), last)
          ELSE Append(sorted, c)

RECURSIVE insertionSort(_)
insertionSort(cs) ==
  IF cs = <<>> THEN <<>>
  ELSE InsertByScore(insertionSort(SubSeq(cs, 1, Len(cs) - 1)), cs[Len(cs)])

Swap(d, i, j) ==
  [d EXCEPT ![i] = d[j], ![j] = d[i]]

\* order2: the two indices in order, and whether they were swapped
order2(d, x, y) ==
  IF Less(d[y], d[x]) THEN <<y, x, 1>> ELSE <<x, y, 0>>

\* choosePivot for a slice of 8 to 49 elements: the median of the elements at
\* one, two and three quarters, and the number of swaps it took to find it
choosePivot(d) ==
  LET q == Len(d) \div 4
      o1 == order2(d, 1 + q, 1 + 2 * q)
      o2 == order2(d, o1[2], 1 + 3 * q)
      o3 == order2(d, o1[1], o2[1])
  IN [pivot |-> o3[2], swaps |-> o1[3] + o2[3] + o3[3]]

\* partialInsertionSort on a slice shorter than 50: it moves nothing and
\* reports whether the slice is sorted already
partialInsertionSort(d) ==
  \A i \in 2..Len(d) : ~Less(d[i], d[i - 1])

\* the two scans of partition; the pivot waits at position 1
RECURSIVE ScanUp(_, _, _)
ScanUp(d, i, j) ==
  IF i <= j /\ Less(d[i], d[1]) THEN ScanUp(d, i + 1, j) ELSE i

RECURSIVE ScanDown(_, _, _)
ScanDown(d, i, j) ==
  IF i <= j /\ ~Less(d[j], d[1]) THEN ScanDown(d, i, j - 1) ELSE j

RECURSIVE PartitionLoop(_, _, _)
PartitionLoop(d, i, j) ==
  LET i2 == ScanUp(d, i, j)
      j2 == ScanDown(d, i2, j)
  IN IF i2 > j2
     THEN [data |-> Swap(d, j2, 1), mid |-> j2]
     ELSE PartitionLoop(Swap(d, i2, j2), i2 + 1, j2 - 1)

\* partition: elements less than the pivot to its left, the others to its right
partition(d, pivot) ==
  PartitionLoop(Swap(d, 1, pivot), 2, Len(d))

\* sort.Slice(cs, less).  A slice of at most MaxInsertion elements is sorted by
\* insertion.  A slice of LongSlice elements is left alone when it is sorted
\* already, else partitioned once around the chosen pivot, and both sides, at
\* most MaxInsertion long, are sorted by insertion.  No list of the model is
\* longer than LongSlice.
SortByScoreDesc(cs) ==
  IF Len(cs) <= MaxInsertion THEN insertionSort(cs)
  ELSE LET chosen == choosePivot(cs)
       IN IF chosen.swaps = 0 /\ partialInsertionSort(cs) THEN cs
          ELSE LET p == partition(cs, chosen.pivot)
               IN insertionSort(SubSeq(p.data, 1, p.mid - 1))
                    \o <<p.data[p.mid]>>
                    \o insertionSort(SubSeq(p.data, p.mid + 1, Len(cs)))

AssignRanks(cs) ==
  [i \in 1..Len(cs) |-> [cs[i] EXCEPT !.Rank = i]]

\* mutation of RecomputedScore: the model's own final_match_score is kept
RecomputedScoreTrusted(cand) ==
  cand.FinalMatchScore

\* the score every candidate of a parsed ranking output gets
RecomputedScore(cand) ==
  WeightedScore(cand.MatchBreakdown)

\* rankAndPresent: (result, err) for the answer of the ranking inference call
rankAndPresent(resp) ==
  IF resp.kind = "transport"
  THEN [value |-> NilResult, err |-> <<"failed to call LLM">>]
  ELSE IF resp.kind = "garbage"
  THEN [value |-> NilResult, err |-> <<"failed to parse final result JSON">>]
  ELSE LET scored == [i \in 1..Len(resp.value.TopCandidates) |->
                        [resp.value.TopCandidates[i] EXCEPT
                           !.FinalMatchScore = RecomputedScore(resp.value.TopCandidates[i])]]
           totalScore == SeqSum([i \in 1..Len(scored) |-> scored[i].FinalMatchScore])
           ranked == AssignRanks(SortByScoreDesc(scored))
       IN [value |-> [isNil |-> FALSE,
                      TopCandidates |-> ranked,
                      Summary |-> IF Len(ranked) > 0
                                  THEN [resp.value.Summary EXCEPT
                                          !.AverageMatchScore = totalScore \div Len(ranked)]
                                  ELSE resp.value.Summary],
           err |-> <<>>]

\* mutation of FallbackScore: the scaling is forgotten
FallbackScoreUnscaled(cand) ==
  cand.InitialMatchScore

\* the score createFallbackResult gives an enriched candidate
FallbackScore(cand) ==
  cand.InitialMatchScore * FallbackScale

\* mutation of TakeTop: the loop never breaks
TakeTopUnlimited(list) ==
  list

\* the candidates the conversion loop of createFallbackResult visits before
\* it breaks
TakeTop(list) ==
  IF Len(list) > FallbackTopN THEN SubSeq(list, 1, FallbackTopN) ELSE list

\* createFallbackResult
createFallbackResult(candidates) ==
  LET taken == TakeTop(candidates.Candidates)
      n == Len(taken)
      converted == [i \in 1..n |->
                      LET cand == taken[i]
                      IN [Rank |-> 0,
                          Username |-> cand.Username,
                          FinalMatchScore |-> FallbackScore(cand),
                          MatchBreakdown |-> ZeroBreakdown,
                          MatchReasoning |-> FallbackReasoning,
                          TopRelevantProjects |->
                            [j \in 1..Len(cand.RelevantRepositories) |->
                               [Name |-> cand.RelevantRepositories[j].Name,
                                URL |-> <<cand.GitHubURL, "/", cand.RelevantRepositories[j].Name>>,
                                WhyRelevant |-> cand.RelevantRepositories[j].RelevanceReason]]]]
      totalScore == SeqSum([i \in 1..n |-> converted[i].FinalMatchScore])
      topCandidates == AssignRanks(SortByScoreDesc(converted))
  IN [isNil |-> FALSE,
      TopCandidates |-> topCandidates,
      Summary |-> [TotalCandidatesFound |-> candidates.SearchMetadata.TotalProfilesFound,
                   CandidatesPresented |-> Len(topCandidates),
                   AverageMatchScore |-> IF Len(topCandidates) > 0
                                         THEN totalScore \div Len(topCandidates) ELSE 0,
                   SearchQuality |-> FallbackQuality]]

(***************************************************************************)
(* Stage 3 helpers: the search request of an attempt and the enrichment of  *)
(* one candidate.                                                          *)
(***************************************************************************)
\* strings.Join(keywords, " ")
RECURSIVE JoinSpace(_)
JoinSpace(keywords) ==
  IF keywords = <<>> THEN <<>>
  ELSE IF Len(keywords) = 1 THEN keywords[1]
  ELSE keywords[1] \o <<" ">> \o JoinSpace(Tail(keywords))

\* mutation of BuildToolInput: the minimum repository count of the strategy
\* is not passed on
BuildToolInputNoFilter(query, strat) ==
  [Language |-> query.Language,
   Location |-> query.Location,
   Keywords |-> IF Len(strat.Keywords) > 0 THEN JoinSpace(strat.Keywords) ELSE <<>>,
   MinRepos |-> 0,
   MaxResults |-> SearchMaxResults]

\* the github.ToolInput findAndEnrichCandidates builds for a query
BuildToolInput(query, strat) ==
  [Language |-> query.Language,
   Location |-> query.Location,
   Keywords |-> IF Len(strat.Keywords) > 0 THEN JoinSpace(strat.Keywords) ELSE <<>>,
   MinRepos |-> strat.MinRepos,
   MaxResults |-> SearchMaxResults]

\* the repositories of one candidate that pass the threshold
RelevantRepos(repos, requiredSkills, keywords) ==
  LET analysed == [i \in 1..Len(repos) |->
                     [repo |-> repos[i],
                      analysis |-> analyzeRepositoryRelevance(repos[i], requiredSkills, keywords)]]
      kept == SelectSeq(analysed, LAMBDA x : AboveThreshold(x.analysis))
  IN [i \in 1..Len(kept) |->
        [Name |-> kept[i].repo.Name,
         Language |-> kept[i].repo.Language,
         Stars |-> kept[i].repo.Stars,
         RelevanceScore |-> kept[i].analysis.Score,
         RelevanceReason |-> kept[i].analysis.Reasons]]

\* mutation of InitialScore: every relevant repository adds its 0.2
InitialScoreAdditive(relevantRepos) ==
  BaseMatchScore + Len(relevantRepos) * RelevantRepoBonus

\* the initial match score of a candidate with these relevant repositories
InitialScore(relevantRepos) ==
  IF Len(relevantRepos) > 0 THEN BaseMatchScore + RelevantRepoBonus ELSE BaseMatchScore

\* the EnrichedCandidate built for a candidate whose repositories were fetched
EnrichOne(cand, repos, reqs, strat) ==
  LET relevantRepos == RelevantRepos(repos, reqs.RequiredSkills, strat.Keywords)
  IN [Username |-> cand.Username,
      Name |-> cand.Name,
      Location |-> cand.Location,
      GitHubURL |-> cand.GitHubURL,
      RelevantRepositories |-> relevantRepos,
      SkillsFound |-> reqs.RequiredSkills,
      InitialMatchScore |-> InitialScore(relevantRepos)]

ZeroMetadata ==
  [SearchesExecuted |-> 0, TotalProfilesFound |-> 0, ProfilesAnalyzed |-> 0]

ZeroEnriched ==
  [CandidatesIsNil |-> TRUE, Candidates |-> <<>>, SearchMetadata |-> ZeroMetadata]

ZeroSearchResult ==
  [err |-> FALSE, resultIsNil |-> TRUE, Candidates |-> <<>>, TotalFound |-> 0]

\* how an attempt ended, as the cascade sees it
AttemptOutcome(res) ==
  IF res.err THEN "error"
  ELSE IF Len(res.Candidates) = 0 THEN "empty" ELSE "found"

(***************************************************************************)
(* State of one run of RunStage2.                                          *)
(***************************************************************************)
VARIABLES
  pc,                 \* where the run is
  requirements,       \* *Requirements of step 1
  strategy,           \* *SearchStrategy of step 2
  llmCalls,           \* inference calls made so far, by stage
  llmAnswers,         \* what each of those calls was answered, in call order
  searchLog,          \* search attempts sent to the backend so far
  searchesExecuted,   \* local searchesExecuted
  searchRes,          \* locals result, err of the last attempt
  fbIdx,              \* index of the next fallback of the range loop
  candidates,         \* local candidates
  candIdx,            \* index of the next candidate of the enrichment loop
  enriched,           \* local enriched
  profilesAnalyzed,   \* local profilesAnalyzed
  fetchLog,           \* repository fetches made so far: login, count, outcome
  enrichedCandidates, \* *EnrichedCandidates handed to step 4
  rankResponse,       \* answer the ranking inference call got
  finalResult,        \* *FinalResult returned
  retErr,             \* error returned, <<>> for nil
  callPc,             \* a function called on its own: "idle", "call" or "return"
  callArgs,           \* its arguments
  callResult          \* what it returned

\* the variables of a run of RunStage2
runVars ==
  <<pc, requirements, strategy, llmCalls, llmAnswers, searchLog, searchesExecuted,
    searchRes, fbIdx, candidates, candIdx, enriched, profilesAnalyzed, fetchLog,
    enrichedCandidates, rankResponse, finalResult, retErr>>

\* the variables of a function called on its own
callVars ==
  <<callPc, callArgs, callResult>>

vars ==
  <<runVars, callVars>>

NoCall ==
  [fn |-> "none"]

\* RunStage2 has been called and has done nothing yet
RunStarts ==
  /\ pc = "requirements"
  /\ requirements = ZeroRequirements
  /\ strategy = ZeroStrategy
  /\ llmCalls = <<>>
  /\ llmAnswers = <<>>
  /\ searchLog = <<>>
  /\ searchesExecuted = 0
  /\ searchRes = ZeroSearchResult
  /\ fbIdx = 1
  /\ candidates = <<>>
  /\ candIdx = 1
  /\ enriched = <<>>
  /\ profilesAnalyzed = 0
  /\ fetchLog = <<>>
  /\ enrichedCandidates = ZeroEnriched
  /\ rankResponse = [kind |-> "none"]
  /\ finalResult = NilResult
  /\ retErr = <<>>

\* no function is called on its own
NoCalls ==
  /\ callPc = "idle"
  /\ callArgs = NoCall
  /\ callResult = NoCall

Init ==
  RunStarts /\ NoCalls

\* mutation of ReturnError: the error is dropped on the way out
ReturnErrorDropped(err) ==
  /\ pc' = "done"
  /\ finalResult' = NilResult
  /\ retErr' = <<>>

\* RunStage2 returns (nil, err)
ReturnError(err) ==
  /\ pc' = "done"
  /\ finalResult' = NilResult
  /\ retErr' = err

\* mutation of IsUnclear: the fail-fast check is skipped
IsUnclearNever(reqs) ==
  FALSE

\* RunStage2's fail-fast check of the parsed requirements
IsUnclear(reqs) ==
  reqs.UnclearRequest

\* RunStage2, step 1 and the unclear-request check
RunStage2Requirements ==
  /\ pc = "requirements"
  /\ UNCHANGED callVars
  /\ \E resp \in RequirementsResponses :
       LET out == analyzeRequirements(resp)
       IN /\ llmCalls' = Append(llmCalls, "requirements")
          /\ llmAnswers' = Append(llmAnswers, resp)
          /\ IF out.err # <<>>
             THEN /\ ReturnError(<<"requirements analysis failed">> \o out.err)
                  /\ UNCHANGED requirements
             ELSE IF IsUnclear(out.value)
             THEN /\ ReturnError(<<"request unclear", out.value.ClarificationQuestion>>)
                  /\ requirements' = out.value
             ELSE /\ pc' = "strategy"
                  /\ requirements' = out.value
                  /\ UNCHANGED <<finalResult, retErr>>
  /\ UNCHANGED <<strategy, searchLog, searchesExecuted, searchRes, fbIdx, candidates,
                 candIdx, enriched, profilesAnalyzed, fetchLog, enrichedCandidates,
                 rankResponse>>

\* RunStage2, step 2
RunStage2Strategy ==
  /\ pc = "strategy"
  /\ UNCHANGED callVars
  /\ \E resp \in StrategyResponses :
       LET out == generateSearchStrategy(resp)
       IN /\ llmCalls' = Append(llmCalls, "strategy")
          /\ llmAnswers' = Append(llmAnswers, resp)
          /\ IF out.err # <<>>
             THEN /\ ReturnError(<<"strategy generation failed">> \o out.err)
                  /\ UNCHANGED strategy
             ELSE /\ pc' = "search"
                  /\ strategy' = out.value
                  /\ UNCHANGED <<finalResult, retErr>>
  /\ UNCHANGED <<requirements, searchLog, searchesExecuted, searchRes, fbIdx, candidates,
                 candIdx, enriched, profilesAnalyzed, fetchLog, enrichedCandidates,
                 rankResponse>>

(***************************************************************************)
(* Stage 3: findAndEnrichCandidates, one action per backend call.          *)
(***************************************************************************)
\* the record the model keeps of an attempt sent to the backend;
\* fallback is 0 for the primary query, else the index in FallbackSearches
LogEntry(fallback, query, input, res) ==
  [fallback |-> fallback,
   query |-> query,
   input |-> input,
   request |-> SearchRequest(input),
   outcome |-> AttemptOutcome(res)]

\* whether the primary result sends the cascade into the fallback loop
NeedsFallback(res) ==
  res.err \/ (~res.resultIsNil /\ Len(res.Candidates) = 0)

\* mutation of FallbackFound: the loop never breaks
FallbackFoundNever(res) ==
  FALSE

\* whether a fallback result ends the fallback loop (the break)
FallbackFound(res) ==
  ~res.err /\ ~res.resultIsNil /\ Len(res.Candidates) > 0

\* mutation of CascadeFails: an empty result is treated as a failure
CascadeFailsOnEmpty(res) ==
  res.err \/ Len(res.Candidates) = 0

\* whether findAndEnrichCandidates fails once the cascade is over
CascadeFails(res) ==
  res.err

\* mutation of AfterCascade: a failed cascade is handed to the ranking step as
\* an empty candidate set
AfterCascadeRanksAnyway(res, se) ==
  IF CascadeFails(res) \/ res.resultIsNil
  THEN /\ pc' = "rank"
       /\ enrichedCandidates' =
            [CandidatesIsNil |-> FALSE, Candidates |-> <<>>,
             SearchMetadata |-> [ZeroMetadata EXCEPT !.SearchesExecuted = se]]
       /\ UNCHANGED <<candidates, finalResult, retErr>>
  ELSE /\ pc' = "enrich"
       /\ candidates' = res.Candidates
       /\ UNCHANGED <<enrichedCandidates, finalResult, retErr>>

\* findAndEnrichCandidates once the cascade is over
AfterCascade(res, se) ==
  IF CascadeFails(res)
  THEN /\ ReturnError(<<"candidate search failed", "search failed">>)
       /\ UNCHANGED <<candidates, enrichedCandidates>>
  ELSE IF res.resultIsNil
  THEN /\ pc' = "rank"
       /\ enrichedCandidates' =
            [CandidatesIsNil |-> TRUE, Candidates |-> <<>>,
             SearchMetadata |-> [ZeroMetadata EXCEPT !.SearchesExecuted = se]]
       /\ UNCHANGED <<candidates, finalResult, retErr>>
  ELSE /\ pc' = "enrich"
       /\ candidates' = res.Candidates
       /\ UNCHANGED <<enrichedCandidates, finalResult, retErr>>

\* the primary search, answered by one of these backend responses
PrimarySearchOn(responses) ==
  /\ pc = "search"
  /\ UNCHANGED callVars
  /\ \E response \in responses :
       LET input == BuildToolInput(strategy.PrimarySearch, strategy)
           res == SearchDevelopers(input, response)
       IN /\ searchesExecuted' = 1
          /\ searchLog' = Append(searchLog, LogEntry(0, strategy.PrimarySearch, input, res))
          /\ searchRes' = res
          /\ IF NeedsFallback(res) /\ Len(strategy.FallbackSearches) > 0
             THEN /\ pc' = "fallback"
                  /\ fbIdx' = 1
                  /\ UNCHANGED <<candidates, enrichedCandidates, finalResult, retErr>>
             ELSE /\ AfterCascade(res, 1)
                  /\ UNCHANGED fbIdx
  /\ UNCHANGED <<requirements, strategy, llmCalls, llmAnswers, candIdx, enriched,
                 profilesAnalyzed, fetchLog, rankResponse>>

\* the primary search
PrimarySearch ==
  PrimarySearchOn(SearchResponses)

\* mutation of NextFallback: a fallback whose rationale asks for it jumps the queue
NextFallbackByRationale(strat, i) ==
  LET urgent == {j \in 1..Len(strat.FallbackSearches) :
                   strat.FallbackSearches[j].Rationale = "try this one first"}
  IN IF urgent # {} THEN CHOOSE j \in urgent : TRUE ELSE i

\* the fallback the range loop runs at position i
NextFallback(strat, i) ==
  i

\* one iteration of the fallback loop
FallbackSearch ==
  /\ pc = "fallback"
  /\ UNCHANGED callVars
  /\ \E response \in SearchResponses :
       LET which == NextFallback(strategy, fbIdx)
           fallback == strategy.FallbackSearches[which]
           input == BuildToolInput(fallback, strategy)
           res == SearchDevelopers(input, response)
       IN /\ searchesExecuted' = searchesExecuted + 1
          /\ searchLog' = Append(searchLog, LogEntry(which, fallback, input, res))
          /\ searchRes' = res
          /\ IF FallbackFound(res) \/ fbIdx = Len(strategy.FallbackSearches)
             THEN /\ AfterCascade(res, searchesExecuted + 1)
                  /\ UNCHANGED fbIdx
             ELSE /\ fbIdx' = fbIdx + 1
                  /\ UNCHANGED <<pc, candidates, enrichedCandidates, finalResult, retErr>>
  /\ UNCHANGED <<requirements, strategy, llmCalls, llmAnswers, candIdx, enriched,
                 profilesAnalyzed, fetchLog, rankResponse>>

\* mutation of EnrichStep: a candidate whose fetch failed is kept, without
\* repositories
EnrichStepKeepsFailed(acc, cand, rr, reqs, strat) ==
  Append(acc, EnrichOne(cand, rr.repos, reqs, strat))

\* what an iteration of the enrichment loop does to the list: a candidate
\* whose fetch failed is skipped (continue), the others are appended
EnrichStep(acc, cand, rr, reqs, strat) ==
  IF rr.err THEN acc
  ELSE Append(acc, EnrichOne(cand, rr.repos, reqs, strat))

\* one iteration of the enrichment loop, the fetch answered by one of these
\* responses
EnrichCandidateOn(responses) ==
  /\ pc = "enrich"
  /\ UNCHANGED callVars
  /\ candIdx <= Len(candidates)
  /\ \E rr \in responses :
       LET cand == candidates[candIdx]
       IN /\ profilesAnalyzed' = profilesAnalyzed + 1
          /\ fetchLog' = Append(fetchLog, [Username |-> cand.Username,
                                           maxRepos |-> ReposPerCandidate,
                                           ok |-> ~rr.err])
          /\ enriched' = EnrichStep(enriched, cand, rr, requirements, strategy)
          /\ candIdx' = candIdx + 1
  /\ UNCHANGED <<pc, requirements, strategy, llmCalls, llmAnswers, searchLog,
                 searchesExecuted, searchRes, fbIdx, candidates, enrichedCandidates, rankResponse,
                 finalResult, retErr>>

\* one iteration of the enrichment loop
EnrichCandidate ==
  EnrichCandidateOn(RepoResponses)

\* the end of findAndEnrichCandidates: the envelope and its validation
FinishEnrichment ==
  /\ pc = "enrich"
  /\ UNCHANGED callVars
  /\ candIdx > Len(candidates)
  /\ LET final == [CandidatesIsNil |-> FALSE,
                   Candidates |-> enriched,
                   SearchMetadata |-> [SearchesExecuted |-> searchesExecuted,
                                       TotalProfilesFound |-> Len(candidates),
                                       ProfilesAnalyzed |-> profilesAnalyzed]]
     IN IF ~EnrichedValidate(final)
        THEN /\ ReturnError(<<"candidate search failed", "invalid enriched candidates">>)
             /\ UNCHANGED enrichedCandidates
        ELSE /\ pc' = "rank"
             /\ enrichedCandidates' = final
             /\ UNCHANGED <<finalResult, retErr>>
  /\ UNCHANGED <<requirements, strategy, llmCalls, llmAnswers, searchLog,
                 searchesExecuted, searchRes, fbIdx, candidates, candIdx, enriched, profilesAnalyzed, fetchLog,
                 rankResponse>>

\* mutation of UsesFallbackResult: only a transport failure is absorbed
UsesFallbackResultOnTransport(out) ==
  out.err = <<"failed to call LLM">>

\* whether RunStage2 substitutes the fallback result for the ranking outcome
UsesFallbackResult(out) ==
  out.err # <<>>

\* RunStage2, step 4 and the degraded-mode substitution
RunStage2Rank ==
  /\ pc = "rank"
  /\ UNCHANGED callVars
  /\ \E resp \in RankingResponses :
       LET out == rankAndPresent(resp)
       IN /\ llmCalls' = Append(llmCalls, "ranking")
          /\ llmAnswers' = Append(llmAnswers, resp)
          /\ rankResponse' = resp
          /\ finalResult' = IF UsesFallbackResult(out)
                            THEN createFallbackResult(enrichedCandidates)
                            ELSE out.value
          /\ retErr' = <<>>
          /\ pc' = "done"
  /\ UNCHANGED <<requirements, strategy, searchLog, searchesExecuted, searchRes, fbIdx,
                 candidates, candIdx, enriched, profilesAnalyzed, fetchLog,
                 enrichedCandidates>>

Next ==
  \/ RunStage2Requirements
  \/ RunStage2Strategy
  \/ PrimarySearch
  \/ FallbackSearch
  \/ EnrichCandidate
  \/ FinishEnrichment
  \/ RunStage2Rank

Spec ==
  Init /\ [][Next]_vars

(***************************************************************************)
(* rankAndPresent and createFallbackResult called on their own, on lists   *)
(* as long as sort.Slice needs to leave insertion sort.                    *)
(***************************************************************************)
\* logins of a long list, in list order
LongNames ==
  <<"u01", "u02", "u03", "u04", "u05", "u06", "u07", "u08", "u09", "u10", "u11", "u12",
    "u13">>

\* the positions of a long list whose candidate may be the stronger one
StrongPositions == {1, 2, 7, 12, 13}

\* the candidate a parsed ranking output lists at position i
LongRanked(i, strong) ==
  [Rank |-> 1, Username |-> LongNames[i], FinalMatchScore |-> 0,
   MatchBreakdown |->
     IF strong
     THEN [RequiredSkillsScore |-> 800, RepositoryRelevanceScore |-> 800,
           ExperienceScore |-> 800, ProfileQualityScore |-> 800]
     ELSE [RequiredSkillsScore |-> 500, RepositoryRelevanceScore |-> 500,
           ExperienceScore |-> 500, ProfileQualityScore |-> 500],
   MatchReasoning |-> "Match", TopRelevantProjects |-> <<>>]

LongRankingResponses ==
  {Parsed([isNil |-> FALSE,
           TopCandidates |-> [i \in 1..n |-> LongRanked(i, i \in H)],
           Summary |-> sm]) :
     n \in {MaxInsertion, LongSlice}, H \in SUBSET StrongPositions, sm \in SummaryPool}

\* the enriched candidate at position i: with one relevant repository or none
LongEnriched(i, strong) ==
  EnrichOne(Candidate(LongNames[i]),
            IF strong THEN <<RepoStrong>> ELSE <<>>,
            [ZeroRequirements EXCEPT !.RequiredSkills = <<TxtGo>>],
            ZeroStrategy)

\* envelopes of such candidates: the search found one more, whose fetch failed
LongEnrichedCandidates ==
  {[CandidatesIsNil |-> FALSE,
    Candidates |-> [i \in 1..n |-> LongEnriched(i, i \in H)],
    SearchMetadata |-> [SearchesExecuted |-> 1, TotalProfilesFound |-> n + 1,
                        ProfilesAnalyzed |-> n + 1]] :
     n \in {FallbackTopN, LongSlice}, H \in SUBSET StrongPositions}

RankingCalls ==
  {[fn |-> "rankAndPresent", resp |-> r] : r \in LongRankingResponses}
    \cup {[fn |-> "createFallbackResult", candidates |-> e] : e \in LongEnrichedCandidates}

InitRanking ==
  /\ RunStarts
  /\ callPc = "call"
  /\ callArgs \in RankingCalls
  /\ callResult = NoCall

CallRankAndPresent ==
  /\ callPc = "call"
  /\ callArgs.fn = "rankAndPresent"
  /\ LET out == rankAndPresent(callArgs.resp)
     IN callResult' = [fn |-> callArgs.fn, result |-> out.value, err |-> out.err]
  /\ callPc' = "return"
  /\ UNCHANGED <<callArgs, runVars>>

CallCreateFallbackResult ==
  /\ callPc = "call"
  /\ callArgs.fn = "createFallbackResult"
  /\ callResult' = [fn |-> callArgs.fn,
                    result |-> createFallbackResult(callArgs.candidates),
                    err |-> <<>>]
  /\ callPc' = "return"
  /\ UNCHANGED <<callArgs, runVars>>

NextRanking ==
  \/ CallRankAndPresent
  \/ CallCreateFallbackResult

SpecRanking ==
  InitRanking /\ [][NextRanking]_vars

(***************************************************************************)
(* findAndEnrichCandidates called on its own, against a backend that       *)
(* reports about as many users as the result ceiling, and more.            *)
(***************************************************************************)
\* the most users the backend reports here: two more than the ceiling
Crowd == SearchMaxResults + 2

\* logins of the crowded backend, in the order a response lists them
CrowdLogins ==
  [i \in 1..Crowd |-> <<"user", i>>]

\* what GET /search/users answers: a failure, or the first n logins, with the
\* detail lookup of none, of the first or of the first MaxUsers failing
CrowdResponses ==
  {[status |-> "error", items |-> <<>>, detailFails |-> {}]}
    \cup {[status |-> "ok", items |-> SubSeq(CrowdLogins, 1, n), detailFails |-> F] :
            n \in (SearchMaxResults - 1)..Crowd,
            F \in {{}, {CrowdLogins[1]}, {CrowdLogins[i] : i \in 1..MaxUsers}}}

\* what the fetch for the candidate at this position answers: either way for
\* the first MaxUsers candidates, a plain repository for the others
CrowdFetches(idx) ==
  IF idx <= MaxUsers
  THEN {[err |-> TRUE, repos |-> <<>>], [err |-> FALSE, repos |-> <<RepoStrong>>]}
  ELSE {[err |-> FALSE, repos |-> <<RepoPlain>>]}

\* the strategies of the pool that pass validation and have no fallback
CrowdStrategies ==
  {st \in StrategyPool : StrategyValidate(st) /\ st.FallbackSearches = <<>>}

AcquisitionCalls ==
  {[fn |-> "findAndEnrichCandidates", strategy |-> st, response |-> r] :
     st \in CrowdStrategies, r \in CrowdResponses}

\* RunStage2 is about to call findAndEnrichCandidates
InitAcquisition ==
  /\ callPc = "idle"
  /\ callArgs \in AcquisitionCalls
  /\ callResult = NoCall
  /\ pc = "search"
  /\ requirements \in {r \in RequirementsPool : RequirementsValidate(r) /\ ~IsUnclear(r)}
  /\ strategy = callArgs.strategy
  /\ llmCalls = <<"requirements", "strategy">>
  /\ llmAnswers = <<Parsed(requirements), Parsed(strategy)>>
  /\ searchLog = <<>>
  /\ searchesExecuted = 0
  /\ searchRes = ZeroSearchResult
  /\ fbIdx = 1
  /\ candidates = <<>>
  /\ candIdx = 1
  /\ enriched = <<>>
  /\ profilesAnalyzed = 0
  /\ fetchLog = <<>>
  /\ enrichedCandidates = ZeroEnriched
  /\ rankResponse = [kind |-> "none"]
  /\ finalResult = NilResult
  /\ retErr = <<>>

\* the primary search, answered by the crowded backend
CrowdSearch ==
  PrimarySearchOn({callArgs.response})

\* one iteration of the enrichment loop over its candidates
CrowdEnrich ==
  EnrichCandidateOn(CrowdFetches(candIdx))

NextAcquisition ==
  \/ CrowdSearch
  \/ CrowdEnrich
  \/ FinishEnrichment

SpecAcquisition ==
  InitAcquisition /\ [][NextAcquisition]_vars

(***************************************************************************)
(* analyzeRepositoryRelevance called on its own.                           *)
(***************************************************************************)
\* longest list of required skills, of keywords and of topic tags
MaxSkills == 2
MaxKeywords == 2
MaxTopics == 2

SkillPool == {TxtGo, TxtGoLower}
KeywordPool == {TxtApi, TxtGoLower, TxtGoSpaceApi}
TopicPool == {TxtApiUpper, TxtGoApi, TxtCli}

\* the topic lists of a repository: no tag twice
TopicLists ==
  {tp \in SeqsUpTo(TopicPool, MaxTopics) :
     \A i, j \in 1..Len(tp) : tp[i] = tp[j] => i = j}

\* star counts at the popularity threshold, right above it and well above it
StarsPool ==
  {PopularStars, PopularStars + 1, PopularStars + 30}

RepositoryPool ==
  {[Name |-> nm, Description |-> ds, Language |-> lg, Stars |-> st, Topics |-> tp] :
     nm \in {TxtGoLower, <<"x">>}, ds \in {TxtEmpty, TxtApiUpper},
     lg \in {TxtGo, TxtEmpty}, st \in StarsPool, tp \in TopicLists}

RelevanceCalls ==
  {[fn |-> "analyzeRepositoryRelevance", repo |-> r, requiredSkills |-> sk, keywords |-> kw] :
     r \in RepositoryPool, sk \in SeqsUpTo(SkillPool, MaxSkills),
     kw \in SeqsUpTo(KeywordPool, MaxKeywords)}

InitRelevance ==
  /\ RunStarts
  /\ callPc = "call"
  /\ callArgs \in RelevanceCalls
  /\ callResult = NoCall

CallAnalyzeRepositoryRelevance ==
  /\ callPc = "call"
  /\ callArgs.fn = "analyzeRepositoryRelevance"
  /\ callResult' =
       [fn |-> callArgs.fn,
        analysis |-> analyzeRepositoryRelevance(callArgs.repo, callArgs.requiredSkills,
                                                callArgs.keywords)]
  /\ callPc' = "return"
  /\ UNCHANGED <<callArgs, runVars>>

NextRelevance ==
  CallAnalyzeRepositoryRelevance

SpecRelevance ==
  InitRelevance /\ [][NextRelevance]_vars

(***************************************************************************)
(* The body of the enrichment loop called on its own: one candidate, the   *)
(* answer of Client.GetDeveloperRepositories for it, and the list built so *)
(* far.                                                                    *)
(***************************************************************************)
\* longest repository list a fetch answers with
MaxRepos == 2

\* the repositories a fetch can answer with
FetchedPool == {RepoPlain, RepoApi, RepoStrong}

FetchResponses ==
  {[err |-> TRUE, repos |-> <<>>]}
    \cup {[err |-> FALSE, repos |-> rs] : rs \in SeqsUpTo(FetchedPool, MaxRepos)}

\* the list enriched so far: nothing yet, or one earlier candidate
EnrichedSoFar ==
  {<<>>, <<EnrichOne(Candidate(UserPool[3]), <<>>, ZeroRequirements, ZeroStrategy)>>}

EnrichmentCalls ==
  {[fn |-> "enrich", acc |-> acc, cand |-> Candidate(u), rr |-> rr,
    requirements |-> [ZeroRequirements EXCEPT !.RequiredSkills = sk],
    strategy |-> [ZeroStrategy EXCEPT !.Keywords = kw]] :
     acc \in EnrichedSoFar, u \in {UserPool[1], UserPool[2]}, rr \in FetchResponses,
     sk \in {<<>>, <<TxtGo>>, <<TxtGoLower, TxtGo>>}, kw \in {<<>>, <<TxtApi>>}}

InitEnrichment ==
  /\ RunStarts
  /\ callPc = "call"
  /\ callArgs \in EnrichmentCalls
  /\ callResult = NoCall

CallEnrichStep ==
  /\ callPc = "call"
  /\ callArgs.fn = "enrich"
  /\ callResult' =
       [fn |-> callArgs.fn,
        enriched |-> EnrichStep(callArgs.acc, callArgs.cand, callArgs.rr,
                                callArgs.requirements, callArgs.strategy)]
  /\ callPc' = "return"
  /\ UNCHANGED <<callArgs, runVars>>

NextEnrichment ==
  CallEnrichStep

SpecEnrichment ==
  InitEnrichment /\ [][NextEnrichment]_vars

(***************************************************************************)
(* extractJSON called on its own, on texts given as character sequences.   *)
(***************************************************************************)
\* the back-quote character, and the fence markers made of it
Backquote == "BACKQUOTE"
Fence == <<Backquote, Backquote, Backquote>>
FenceJson == Fence \o <<"j", "s", "o", "n">>

\* strings.Index, counted from 1; 0 when sub does not occur
IndexOf(s, sub) ==
  IF Contains(s, sub)
  THEN 1 + CHOOSE i \in 0..(Len(s) - Len(sub)) :
             /\ SubSeq(s, i + 1, i + Len(sub)) = sub
             /\ \A j \in 0..(i - 1) : SubSeq(s, j + 1, j + Len(sub)) # sub
  ELSE 0

\* strings.Split(s, sep)[0]
FirstPart(s, sep) ==
  IF IndexOf(s, sep) = 0 THEN s ELSE SubSeq(s, 1, IndexOf(s, sep) - 1)

\* strings.Split(s, sep)[1], for an s that contains sep
SecondPart(s, sep) ==
  FirstPart(SubSeq(s, IndexOf(s, sep) + Len(sep), Len(s)), sep)

IsSpace(c) ==
  c \in {" ", "\n", "\t", "\r"}

RECURSIVE TrimLeft(_)
TrimLeft(s) ==
  IF s # <<>> /\ IsSpace(Head(s)) THEN TrimLeft(Tail(s)) ELSE s

RECURSIVE TrimRight(_)
TrimRight(s) ==
  IF s # <<>> /\ IsSpace(s[Len(s)]) THEN TrimRight(SubSeq(s, 1, Len(s) - 1)) ELSE s

\* strings.TrimSpace
TrimSpace(s) ==
  TrimRight(TrimLeft(s))

extractJSON(content) ==
  IF Contains(content, FenceJson)
  THEN TrimSpace(FirstPart(SecondPart(content, FenceJson), Fence))
  ELSE content

\* the pieces an inference response text is made of
ProsePool == {<<>>, <<"H", "e", "r", "e", ":", "\n">>, <<"\n">>}
OpenerPool == {<<>>, Fence, FenceJson}
PayloadPool == {<<"{", "}">>, <<"\n", "{", "}", "\n">>, <<"\n", "{", " ", "}", " ", "\n">>}
CloserPool == {<<>>, Fence}
TrailerPool == {<<>>, <<"\n">>, <<"\n", "D", "o", "n", "e", ".">>}

ExtractCalls ==
  {[fn |-> "extractJSON", prose |-> pr, opener |-> op, payload |-> pl, closer |-> cl,
    trailer |-> tr, content |-> pr \o op \o pl \o cl \o tr] :
     pr \in ProsePool, op \in OpenerPool, pl \in PayloadPool, cl \in CloserPool,
     tr \in TrailerPool}

InitExtract ==
  /\ RunStarts
  /\ callPc = "call"
  /\ callArgs \in ExtractCalls
  /\ callResult = NoCall

CallExtractJSON ==
  /\ callPc = "call"
  /\ callArgs.fn = "extractJSON"
  /\ callResult' = [fn |-> callArgs.fn, text |-> extractJSON(callArgs.content)]
  /\ callPc' = "return"
  /\ UNCHANGED <<callArgs, runVars>>

NextExtract ==
  CallExtractJSON

SpecExtract ==
  InitExtract /\ [][NextExtract]_vars

(***************************************************************************)
(* Properties.                                                             *)
(***************************************************************************)
\* the cascade of this run is over: findAndEnrichCandidates sends no more searches
CascadeOver ==
  searchLog # <<>> /\ pc \in {"enrich", "rank", "done"}

\* RunStage2 returned the error of a failed candidate search
SearchFailed ==
  pc = "done" /\ retErr = <<"candidate search failed", "search failed">>

\* the run reached step 4 and the ranking call was answered
Ranked ==
  pc = "done" /\ rankResponse.kind # "none"

\* the ranking inference call failed: transport error or unparseable output
RankingFailed ==
  pc = "done" /\ rankResponse.kind \in {"transport", "garbage"}

\* C1: when requirements extraction yields unclear_request = true, the run is
\* over with the error "request unclear: <question>" and a nil result, after
\* exactly one inference call (the requirements call) and without any profile
\* search or repository fetch; no strategy or ranking call is made.
C1_UnclearStopsRun ==
  requirements.UnclearRequest =>
    /\ pc = "done"
    /\ retErr = <<"request unclear", requirements.ClarificationQuestion>>
    /\ finalResult.isNil
    /\ llmCalls = <<"requirements">>
    /\ searchLog = <<>>
    /\ fetchLog = <<>>

C1_Witness ==
  /\ pc = "done"
  /\ requirements.UnclearRequest
  /\ requirements.RequiredSkills = <<>>
  /\ retErr = <<"request unclear", "What is the role?">>

C3_ErrorIffEveryAttemptFailed ==
  CascadeOver =>
    (SearchFailed <=> \A i \in 1..Len(searchLog) : searchLog[i].outcome = "error")

\* every attempt of the cascade came back well-formed and empty
AllAttemptsEmpty ==
  /\ searchLog # <<>>
  /\ Len(searchLog) = 1 + Len(strategy.FallbackSearches)
  /\ \A i \in 1..Len(searchLog) : searchLog[i].outcome = "empty"

\* C4: when the primary and every fallback return a well-formed empty result,
\* the search does not fail: no repository is fetched, the envelope carries an
\* empty non-nil candidate list with TotalProfilesFound = 0 and
\* SearchesExecuted = 1 + number of fallbacks, and the run goes on to the
\* ranking call and returns a result without error.
C4_AllEmptyPropagates ==
  AllAttemptsEmpty =>
    /\ pc \in {"enrich", "rank", "done"}
    /\ candidates = <<>>
    /\ fetchLog = <<>>
    /\ retErr = <<>>
    /\ pc \in {"rank", "done"} =>
         /\ ~enrichedCandidates.CandidatesIsNil
         /\ enrichedCandidates.Candidates = <<>>
         /\ enrichedCandidates.SearchMetadata.TotalProfilesFound = 0
         /\ enrichedCandidates.SearchMetadata.SearchesExecuted
              = 1 + Len(strategy.FallbackSearches)
    /\ pc = "done" =>
         /\ llmCalls = <<"requirements", "strategy", "ranking">>
         /\ ~finalResult.isNil

C4_Witness ==
  /\ AllAttemptsEmpty
  /\ Len(strategy.FallbackSearches) = 2
  /\ pc = "done"
  /\ llmCalls[Len(llmCalls)] = "ranking"

\* the query the strategy holds for attempt i (1 is the primary)
QueryOfAttempt(i) ==
  IF i = 1 THEN strategy.PrimarySearch ELSE strategy.FallbackSearches[i - 1]

EnrichedNamed(login) ==
  CHOOSE c \in {enrichedCandidates.Candidates[j] :
                  j \in 1..Len(enrichedCandidates.Candidates)} : c.Username = login

HasEnrichedNamed(login) ==
  \E j \in 1..Len(enrichedCandidates.Candidates) :
    enrichedCandidates.Candidates[j].Username = login

\* four times the first component plus three times the second plus twice the
\* third plus the fourth: ten times the weighted sum 0.4, 0.3, 0.2, 0.1
TenTimesWeightedSum(bd) ==
  4 * bd.RequiredSkillsScore + 3 * bd.RepositoryRelevanceScore
    + 2 * bd.ExperienceScore + bd.ProfileQualityScore

\* C6 (as claimed): whenever candidate acquisition produced at least one
\* enriched candidate, the run ends with a nil error and a result that lists at
\* least one ranked candidate, whatever the ranking call answered.
C6_ResultsWheneverCandidatesFound ==
  (Ranked /\ Len(enrichedCandidates.Candidates) >= 1) =>
    /\ retErr = <<>>
    /\ ~finalResult.isNil
    /\ Len(finalResult.TopCandidates) >= 1

\* C7: when the ranking call fails (transport error or unparseable output),
\* RunStage2 returns a nil error and exactly the result createFallbackResult
\* builds from the enriched candidates.
C7_RankingFailureAbsorbed ==
  RankingFailed =>
    /\ retErr = <<>>
    /\ ~finalResult.isNil
    /\ finalResult = createFallbackResult(enrichedCandidates)

C7_Witness ==
  /\ RankingFailed
  /\ rankResponse.kind = "garbage"
  /\ Len(enrichedCandidates.Candidates) >= 1
  /\ Len(finalResult.TopCandidates) >= 1

\* C8: when the ranking call fails, the summary's SearchQuality is the
\* degraded-mode sentinel, every candidate carries the fixed reasoning text,
\* and every candidate's FinalMatchScore is 100 times the InitialMatchScore of
\* the enriched candidate it was built from.
C8_FallbackResultContents ==
  RankingFailed =>
    /\ finalResult.Summary.SearchQuality = "Fallback (Ranking Unavailable)"
    /\ \A i \in 1..Len(finalResult.TopCandidates) :
         LET rc == finalResult.TopCandidates[i]
         IN /\ rc.MatchReasoning
                 = "Ranking step unavailable; score is based on initial keyword match."
            /\ HasEnrichedNamed(rc.Username)
            /\ rc.FinalMatchScore = 100 * EnrichedNamed(rc.Username).InitialMatchScore

C8_Witness ==
  /\ RankingFailed
  /\ rankResponse.kind = "transport"
  /\ Len(finalResult.TopCandidates) = 2
  /\ finalResult.TopCandidates[1].FinalMatchScore = 70000
  /\ finalResult.TopCandidates[2].FinalMatchScore = 50000

\* C9: in a result built from a parsed ranking output, every candidate's
\* FinalMatchScore is 0.4, 0.3, 0.2, 0.1 times the four scores of its own
\* MatchBreakdown, whatever final_match_score, rank or summary the output held.
C9_ScoreRecomputedFromBreakdown ==
  (Ranked /\ rankResponse.kind = "json") =>
    \A i \in 1..Len(finalResult.TopCandidates) :
      10 * finalResult.TopCandidates[i].FinalMatchScore
        = TenTimesWeightedSum(finalResult.TopCandidates[i].MatchBreakdown)

C9_Witness ==
  /\ Ranked
  /\ rankResponse.kind = "json"
  /\ \E i \in 1..Len(rankResponse.value.TopCandidates) :
       /\ rankResponse.value.TopCandidates[i].Username = "alice"
       /\ rankResponse.value.TopCandidates[i].FinalMatchScore = 950
  /\ \E i \in 1..Len(finalResult.TopCandidates) :
       /\ finalResult.TopCandidates[i].Username = "alice"
       /\ finalResult.TopCandidates[i].FinalMatchScore = 295

\* C10 (as claimed): in every result RunStage2 returns, in normal and in
\* degraded mode, every candidate's FinalMatchScore is the weighted sum of the
\* four scores of its MatchBreakdown.
C10_ScoreIsWeightedSumInEveryMode ==
  (pc = "done" /\ ~finalResult.isNil) =>
    \A i \in 1..Len(finalResult.TopCandidates) :
      10 * finalResult.TopCandidates[i].FinalMatchScore
        = TenTimesWeightedSum(finalResult.TopCandidates[i].MatchBreakdown)

\* C10 (amended): in every result RunStage2 returns in normal mode, every
\* candidate's FinalMatchScore is the weighted sum of its MatchBreakdown; in
\* degraded mode the MatchBreakdown of every candidate is all zero and its
\* FinalMatchScore is 100 times the candidate's InitialMatchScore instead.
C10_ScoreByMode ==
  (pc = "done" /\ ~finalResult.isNil) =>
    \A i \in 1..Len(finalResult.TopCandidates) :
      LET rc == finalResult.TopCandidates[i]
      IN IF rankResponse.kind = "json"
         THEN 10 * rc.FinalMatchScore = TenTimesWeightedSum(rc.MatchBreakdown)
         ELSE /\ TenTimesWeightedSum(rc.MatchBreakdown) = 0
              /\ rc.MatchBreakdown = ZeroBreakdown
              /\ HasEnrichedNamed(rc.Username)
              /\ rc.FinalMatchScore = 100 * EnrichedNamed(rc.Username).InitialMatchScore
              /\ rc.FinalMatchScore > 0

C10_Witness ==
  /\ pc = "done"
  /\ rankResponse.kind = "garbage"
  /\ Len(finalResult.TopCandidates) >= 1
  /\ finalResult.TopCandidates[1].MatchBreakdown = ZeroBreakdown
  /\ finalResult.TopCandidates[1].FinalMatchScore = 50000

\* the list a ranking function called on its own was given, and the one it returned
GivenList ==
  IF callArgs.fn = "rankAndPresent"
  THEN callArgs.resp.value.TopCandidates
  ELSE SubSeq(callArgs.candidates.Candidates, 1, Len(callResult.result.TopCandidates))

ReturnedList ==
  callResult.result.TopCandidates

RankingReturned ==
  callPc = "return" /\ callResult.fn \in {"rankAndPresent", "createFallbackResult"}

\* C11: in every FinalResult rankAndPresent or createFallbackResult returns,
\* the Rank values read down the list are 1, 2, ..., n and FinalMatchScore
\* never increases from one position to the next.
C11_RanksDenseScoresDescending ==
  RankingReturned =>
    /\ \A i \in 1..Len(ReturnedList) : ReturnedList[i].Rank = i
    /\ \A i \in 1..(Len(ReturnedList) - 1) :
         ReturnedList[i].FinalMatchScore >= ReturnedList[i + 1].FinalMatchScore

\* a list of LongSlice candidates came back in another order than it was given,
\* the model's own ranks replaced
C11_Witness ==
  /\ RankingReturned
  /\ callResult.fn = "rankAndPresent"
  /\ Len(ReturnedList) = LongSlice
  /\ ReturnedList[1].Username # GivenList[1].Username
  /\ ReturnedList[1].FinalMatchScore > ReturnedList[LongSlice].FinalMatchScore
  /\ ReturnedList[LongSlice].Rank = LongSlice

\* where the candidate of this login stood in the list given
GivenPosition(login) ==
  CHOOSE i \in 1..Len(GivenList) : GivenList[i].Username = login

\* C12: in both paths the sort is stable: two candidates of equal
\* FinalMatchScore are returned in the relative order they were given in.
C12_RankingIsStable ==
  RankingReturned =>
    \A i, j \in 1..Len(ReturnedList) :
      (i < j /\ ReturnedList[i].FinalMatchScore = ReturnedList[j].FinalMatchScore)
        => GivenPosition(ReturnedList[i].Username) < GivenPosition(ReturnedList[j].Username)

\* C13: whenever the ranking output parsed, the AverageMatchScore returned is
\* the mean of the recomputed FinalMatchScore values of the candidates
\* returned, for any number of them (0 when none is returned); the model's own
\* average_match_score is not passed through.
C13_AverageRecomputed ==
  (Ranked /\ rankResponse.kind = "json") =>
    LET tc == finalResult.TopCandidates
        total == SeqSum([i \in 1..Len(tc) |-> tc[i].FinalMatchScore])
    IN finalResult.Summary.AverageMatchScore =
         IF Len(tc) > 0 THEN total \div Len(tc) ELSE 0

\* findAndEnrichCandidates got candidates from the cascade and its enrichment
\* loop is over
EnrichmentOver ==
  CascadeOver /\ ~searchRes.err /\ ~searchRes.resultIsNil /\ pc # "enrich"

Usernames(list) ==
  [i \in 1..Len(list) |-> list[i].Username]

\* C14: whichever repository fetches fail, findAndEnrichCandidates returns no
\* error, every candidate of the search was fetched once, in search order,
\* and Candidates lists exactly the candidates whose fetch succeeded, in that
\* order.
C14_FetchFailureSkipsOnlyThatCandidate ==
  EnrichmentOver =>
    /\ pc = "rank" \/ (pc = "done" /\ retErr = <<>>)
    /\ ~enrichedCandidates.CandidatesIsNil
    /\ Usernames(fetchLog) = Usernames(candidates)
    /\ Usernames(enrichedCandidates.Candidates)
         = Usernames(SelectSeq(fetchLog, LAMBDA f : f.ok))

\* the fetch of the first of two candidates failed, the second was enriched
C14_Witness ==
  /\ EnrichmentOver
  /\ Len(candidates) = 2
  /\ ~fetchLog[1].ok /\ fetchLog[2].ok
  /\ Usernames(enrichedCandidates.Candidates) = <<candidates[2].Username>>

\* the requirements call of this run was answered with requirements that
\* analyzeRequirements accepts and that are not marked unclear
RequirementsClear ==
  /\ Len(llmAnswers) >= 1
  /\ analyzeRequirements(llmAnswers[1]).err = <<>>
  /\ ~llmAnswers[1].value.UnclearRequest

\* C15: a run whose requirements extraction succeeded with unclear_request =
\* false returns either a FinalResult and no error, or no result and an error;
\* never no result and no error.
C15_ResultOrError ==
  (pc = "done" /\ RequirementsClear) =>
    \/ ~finalResult.isNil /\ retErr = <<>>
    \/ finalResult.isNil /\ retErr # <<>>

\* such a run ended with the error of a failed candidate search
C15_Witness ==
  /\ RequirementsClear
  /\ SearchFailed
  /\ finalResult.isNil

\* the i-th inference call of the run (1 requirements, 2 strategy) failed, or
\* was answered with text that does not parse or does not validate
PlanningCallFailed(i) ==
  /\ i \in 1..Len(llmAnswers)
  /\ \/ llmAnswers[i].kind \in {"transport", "garbage"}
     \/ i = 1 /\ ~RequirementsValidate(llmAnswers[i].value)
     \/ i = 2 /\ ~StrategyValidate(llmAnswers[i].value)

StageOrder ==
  <<"requirements", "strategy", "ranking">>

\* one step of a run that keeps the stages in order
StepInStageOrder ==
  /\ llmCalls' # llmCalls =>
       /\ Len(llmCalls) < Len(StageOrder)
       /\ llmCalls' = SubSeq(StageOrder, 1, Len(llmCalls) + 1)
       /\ Len(llmCalls) = 1 => ~PlanningCallFailed(1) /\ pc = "strategy"
       /\ Len(llmCalls) = 2 =>
            ~PlanningCallFailed(2) /\ CascadeOver /\ ~searchRes.err /\ pc = "rank"
  /\ (searchLog' # searchLog \/ fetchLog' # fetchLog) =>
       /\ llmCalls = <<"requirements", "strategy">>
       /\ llmCalls' = llmCalls
       /\ ~PlanningCallFailed(2)
  /\ fetchLog' # fetchLog => (searchLog' = searchLog /\ searchLog # <<>>)
  /\ (pc' = "done" /\ retErr' = <<>>) => llmCalls' = StageOrder

\* C17: the stages run in the order requirements, strategy, acquisition,
\* ranking, each at most once and only after the one before succeeded: every
\* inference call is the next of that order, a run that returns a result made
\* exactly the three of them, and every profile search and repository fetch
\* is made between the strategy call and the ranking call, by a step that
\* makes no inference call.
C17_StagesInOrder ==
  [][StepInStageOrder]_vars

\* a complete run: three inference calls, two searches and two fetches
C17_Witness ==
  /\ pc = "done"
  /\ retErr = <<>>
  /\ llmCalls = StageOrder
  /\ Len(searchLog) = 2
  /\ Len(fetchLog) = 2

RelevanceReturned ==
  callPc = "return" /\ callResult.fn = "analyzeRepositoryRelevance"

\* C18: for every repository, skill list and keyword list the score
\* analyzeRepositoryRelevance returns is at least 0 and at most 1 (1000
\* thousandths).
C18_ScoreInUnitInterval ==
  RelevanceReturned =>
    (callResult.analysis.Score >= 0 /\ callResult.analysis.Score <= 1000)

\* matches worth more than 1 were counted and the score returned is 1
C18_Witness ==
  /\ RelevanceReturned
  /\ Len(callResult.analysis.Reasons) >= 5
  /\ callResult.analysis.Score = 1000

\* a: the required skills equal to the repository language ignoring case
LanguageMatches ==
  Cardinality({i \in 1..Len(callArgs.requiredSkills) :
                 EqualFold(callArgs.requiredSkills[i], callArgs.repo.Language)})

\* b: the keywords that are a case-insensitive substring of this text
KeywordHits(text) ==
  Cardinality({i \in 1..Len(callArgs.keywords) :
                 Contains(ToLower(text), ToLower(callArgs.keywords[i]))})

\* c: 1 for more than 50 stars
StarsPoint ==
  IF callArgs.repo.Stars > 50 THEN 1 ELSE 0

\* min(1.0, 0.3a + 0.2b + 0.15t + 0.1c), in thousandths
ClampedSum(a, b, t, c) ==
  LET sum == 300 * a + 200 * b + 150 * t + 100 * c
  IN IF sum < 1000 THEN sum ELSE 1000

\* C19 as stated: for a repository without topic tags the score is
\* min(1.0, 0.3a + 0.2b + 0.1c), where b counts the keywords found, ignoring
\* case, in the repository name followed by the description.
C19_ScoreWithoutTopics ==
  (RelevanceReturned /\ callArgs.repo.Topics = <<>>) =>
    callResult.analysis.Score =
      ClampedSum(LanguageMatches,
                 KeywordHits(callArgs.repo.Name \o callArgs.repo.Description),
                 0, StarsPoint)

\* C19 amended: b counts the keywords found, ignoring case, in the text made
\* of the repository name, one space and the description.
C19_ScoreWithoutTopicsSpaced ==
  (RelevanceReturned /\ callArgs.repo.Topics = <<>>) =>
    callResult.analysis.Score =
      ClampedSum(LanguageMatches,
                 KeywordHits(callArgs.repo.Name \o <<" ">> \o callArgs.repo.Description),
                 0, StarsPoint)

\* the scenario of the claim: language Go, description containing the keyword,
\* 80 stars, one skill Go, one keyword, no topics: 0.6
C19_Witness ==
  /\ RelevanceReturned
  /\ callArgs.repo.Topics = <<>>
  /\ callArgs.repo.Language = TxtGo
  /\ callArgs.repo.Description = TxtApiUpper
  /\ callArgs.repo.Stars = 80
  /\ callArgs.requiredSkills = <<TxtGo>>
  /\ callArgs.keywords = <<TxtApi>>
  /\ callResult.analysis.Score = 600

\* the keywords that match at least one topic tag
KeywordsWithTopic ==
  Cardinality({i \in 1..Len(callArgs.keywords) :
                 \E j \in 1..Len(callArgs.repo.Topics) :
                   Contains(ToLower(callArgs.repo.Topics[j]), ToLower(callArgs.keywords[i]))})

\* the (topic tag, keyword) pairs that match
TopicKeywordPairs ==
  Cardinality({ij \in (1..Len(callArgs.repo.Topics)) \X (1..Len(callArgs.keywords)) :
                 Contains(ToLower(callArgs.repo.Topics[ij[1]]),
                          ToLower(callArgs.keywords[ij[2]]))})

SpacedText ==
  callArgs.repo.Name \o <<" ">> \o callArgs.repo.Description

\* C20 as stated: the topic loop adds 0.15 once per keyword that matches at
\* least one topic tag, however many tags it matches.
C20_TopicPointsPerKeyword ==
  RelevanceReturned =>
    callResult.analysis.Score =
      ClampedSum(LanguageMatches, KeywordHits(SpacedText), KeywordsWithTopic, StarsPoint)

\* C20 amended: the topic loop adds 0.15 per (topic tag, keyword) pair in
\* which the keyword is a case-insensitive substring of the tag, so a keyword
\* that matches several tags adds 0.15 for each of them.
C20_TopicPointsPerPair ==
  RelevanceReturned =>
    callResult.analysis.Score =
      ClampedSum(LanguageMatches, KeywordHits(SpacedText), TopicKeywordPairs, StarsPoint)

\* one keyword matched two topic tags and nothing else matched: 0.3
C20_Witness ==
  /\ RelevanceReturned
  /\ Len(callArgs.keywords) = 1
  /\ Len(callArgs.repo.Topics) = 2
  /\ TopicKeywordPairs = 2
  /\ KeywordsWithTopic = 1
  /\ callResult.analysis.Score = 300

\* an iteration of the enrichment loop returned
EnrichmentReturned ==
  callPc = "return" /\ callResult.fn = "enrich"

\* the analysis of the i-th fetched repository
FetchedAnalysis(i) ==
  analyzeRepositoryRelevance(callArgs.rr.repos[i], callArgs.requirements.RequiredSkills,
                             callArgs.strategy.Keywords)

\* the score of the analysis is strictly above 0.3; a sum of 0.2 + 0.1 is,
\* in float64, and a sum of 0.3 alone is not
StrictlyAbove(a) ==
  a.Score > 300 \/ (a.Score = 300 /\ a.Above)

\* the fetched repositories that score strictly above 0.3, in fetch order
FetchedAbove ==
  SelectSeq([i \in 1..Len(callArgs.rr.repos) |->
               [repo |-> callArgs.rr.repos[i], analysis |-> FetchedAnalysis(i)]],
            LAMBDA x : StrictlyAbove(x.analysis))

\* the entry the iteration appended
Appended ==
  callResult.enriched[Len(callResult.enriched)]

\* C21: a fetched repository is listed in the candidate's RelevantRepositories
\* if and only if its relevance score is strictly above 0.3 (the listed ones
\* are the fetched ones above 0.3, in fetch order, with their scores); a
\* candidate whose repositories are all excluded is appended all the same.
C21_ListedIffAboveThreshold ==
  (EnrichmentReturned /\ ~callArgs.rr.err) =>
    /\ Len(callResult.enriched) = Len(callArgs.acc) + 1
    /\ Appended.Username = callArgs.cand.Username
    /\ Len(Appended.RelevantRepositories) = Len(FetchedAbove)
    /\ \A i \in 1..Len(FetchedAbove) :
         /\ Appended.RelevantRepositories[i].Name = FetchedAbove[i].repo.Name
         /\ Appended.RelevantRepositories[i].RelevanceScore = FetchedAbove[i].analysis.Score

\* the first fetched repository matched the language alone, scores exactly
\* 0.3 and is not listed, and the candidate is appended all the same
C21_Witness ==
  /\ EnrichmentReturned
  /\ ~callArgs.rr.err
  /\ Len(callArgs.rr.repos) >= 1
  /\ FetchedAnalysis(1).Score = 300
  /\ ~FetchedAnalysis(1).Above
  /\ Appended.Username = callArgs.cand.Username
  /\ \A i \in 1..Len(Appended.RelevantRepositories) :
       Appended.RelevantRepositories[i].Name # callArgs.rr.repos[1].Name

\* extractJSON returned
ExtractReturned ==
  callPc = "return" /\ callResult.fn = "extractJSON"

\* the payload of the text is wrapped in a fence: an opening marker, with or
\* without the json tag, before it and a closing fence after it
Wrapped ==
  callArgs.opener # <<>> /\ callArgs.closer # <<>>

\* the text has no fence at all
Unfenced ==
  ~Contains(callArgs.content, Fence)

\* C24: for a payload wrapped in a markdown fence extractJSON returns the
\* payload alone (what precedes the opening marker, the marker and everything
\* from the closing fence on are dropped), and a text without a fence is
\* returned unchanged.
C24_FenceStripped ==
  ExtractReturned =>
    /\ Wrapped => callResult.text = TrimSpace(callArgs.payload)
    /\ Unfenced => callResult.text = callArgs.content

\* C24 for the fences the code recognises: a payload wrapped in a fence
\* opened by the marker with the json tag is returned alone
C24_JsonFenceStripped ==
  ExtractReturned =>
    /\ (Wrapped /\ callArgs.opener = FenceJson) => callResult.text = TrimSpace(callArgs.payload)
    /\ Unfenced => callResult.text = callArgs.content

\* a payload wrapped in a fence without the json tag came back with its fence
C24_PlainFenceKept ==
  /\ ExtractReturned
  /\ Wrapped
  /\ callArgs.opener = Fence
  /\ callResult.text = callArgs.content

\* the requirements call of this run was answered with text that parses
RequirementsParsed ==
  Len(llmAnswers) >= 1 /\ llmAnswers[1].kind = "json"

\* the run is over with this error of this stage and no result
AbortedWith(stage, cause) ==
  /\ pc = "done"
  /\ finalResult.isNil
  /\ retErr = <<stage, cause>>

\* C22: analyzeRequirements accepts parsed requirements exactly when the
\* required-skills list is non-empty or unclear_request is true: empty skills
\* with unclear_request = false end the run with the stage's validation error
\* after that one inference call, empty skills with unclear_request = true are
\* accepted (and the run then reports "request unclear"), and requirements
\* with skills are accepted whatever the experience level.
C22_RequirementsValidation ==
  RequirementsParsed =>
    LET v == llmAnswers[1].value
    IN /\ (v.RequiredSkills = <<>> /\ ~v.UnclearRequest) =>
            /\ AbortedWith("requirements analysis failed", "invalid requirements")
            /\ llmCalls = <<"requirements">>
            /\ searchLog = <<>>
       /\ (v.RequiredSkills = <<>> /\ v.UnclearRequest) =>
            /\ requirements = v
            /\ AbortedWith("request unclear", v.ClarificationQuestion)
       /\ v.RequiredSkills # <<>> =>
            /\ requirements = v
            /\ retErr # <<"requirements analysis failed", "invalid requirements">>

\* requirements with an experience level and no skill, not marked unclear,
\* were rejected; the pool also holds accepted ones without experience level
C22_Witness ==
  /\ RequirementsParsed
  /\ llmAnswers[1].value.RequiredSkills = <<>>
  /\ llmAnswers[1].value.ExperienceLevel = "Senior"
  /\ ~llmAnswers[1].value.UnclearRequest
  /\ AbortedWith("requirements analysis failed", "invalid requirements")
  /\ \E r \in RequirementsPool :
       r.RequiredSkills # <<>> /\ r.ExperienceLevel = "" /\ RequirementsValidate(r)

\* the strategy call of this run was answered with text that parses
StrategyParsed ==
  Len(llmAnswers) >= 2 /\ llmAnswers[2].kind = "json"

AcquisitionReturned ==
  /\ CascadeOver
  /\ pc \in {"rank", "done"}
  /\ retErr = <<>> \/ retErr[1] # "candidate search failed"

\* C25: every envelope findAndEnrichCandidates returns without error has a
\* non-nil candidate list (possibly empty) and passes its validation, on
\* every path through the cascade; and an envelope with a nil list is one
\* the validation rejects.
C25_CandidatesNeverNil ==
  /\ AcquisitionReturned =>
       /\ ~enrichedCandidates.CandidatesIsNil
       /\ EnrichedValidate(enrichedCandidates)
  /\ ~EnrichedValidate([enrichedCandidates EXCEPT !.CandidatesIsNil = TRUE])

\* the primary search failed, the fallback came back empty, and the envelope
\* returned has an empty non-nil list
C25_Witness ==
  /\ AcquisitionReturned
  /\ Len(searchLog) = 2
  /\ searchLog[1].outcome = "error"
  /\ searchLog[2].outcome = "empty"
  /\ ~enrichedCandidates.CandidatesIsNil
  /\ enrichedCandidates.Candidates = <<>>

\* C26: the ProfilesAnalyzed of the envelope is the number of candidates
\* whose repositories were fetched and that appear in Candidates; a candidate
\* skipped because its fetch failed is not counted.
C26_AnalyzedCountsSuccesses ==
  EnrichmentOver =>
    /\ enrichedCandidates.SearchMetadata.ProfilesAnalyzed
         = Len(SelectSeq(fetchLog, LAMBDA f : f.ok))
    /\ enrichedCandidates.SearchMetadata.ProfilesAnalyzed
         = Len(enrichedCandidates.Candidates)

\* what the code reports: the number of candidates the loop visited, those
\* whose fetch failed included, which is TotalProfilesFound
C26_AnalyzedCountsVisited ==
  EnrichmentOver =>
    /\ enrichedCandidates.SearchMetadata.ProfilesAnalyzed = Len(fetchLog)
    /\ enrichedCandidates.SearchMetadata.ProfilesAnalyzed
         = enrichedCandidates.SearchMetadata.TotalProfilesFound

\* the only fetch of the run failed and ProfilesAnalyzed is 1
C26_FailedFetchCounted ==
  /\ EnrichmentOver
  /\ Len(fetchLog) = 1
  /\ ~fetchLog[1].ok
  /\ enrichedCandidates.Candidates = <<>>
  /\ enrichedCandidates.SearchMetadata.ProfilesAnalyzed = 1

\* attempt i was issued with its query's language and location, the
\* strategy's keywords and the ceiling of 15, and the search it sent filters
\* on that language and location
AttemptCarriesQuery(i) ==
  /\ searchLog[i].input.Language = QueryOfAttempt(i).Language
  /\ searchLog[i].input.Location = QueryOfAttempt(i).Location
  /\ searchLog[i].input.Keywords = JoinSpace(strategy.Keywords)
  /\ searchLog[i].input.MaxResults = 15
  /\ searchLog[i].input.MinRepos = strategy.MinRepos
  /\ searchLog[i].request.language = QueryOfAttempt(i).Language
  /\ searchLog[i].request.location = QueryOfAttempt(i).Location

\* two attempts differ in language and location only
SameButQuery(i, j) ==
  /\ [searchLog[i].input EXCEPT !.Language = "", !.Location = ""]
       = [searchLog[j].input EXCEPT !.Language = "", !.Location = ""]
  /\ [searchLog[i].request EXCEPT !.language = "", !.location = ""]
       = [searchLog[j].request EXCEPT !.language = "", !.location = ""]

\* C27 as stated: every attempt is issued with its query's language and
\* location, the strategy's keywords, a ceiling of 15 and a minimum-repository
\* filter equal to PostFilters.MinRepos, whatever that value is; attempts
\* differ in language and location only.
C27_FilterIsMinRepos ==
  \A i \in 1..Len(searchLog) :
    /\ AttemptCarriesQuery(i)
    /\ searchLog[i].request.repos = strategy.MinRepos
    /\ \A j \in 1..Len(searchLog) : SameButQuery(i, j)

\* C27 amended: as above, with a minimum-repository filter equal to
\* PostFilters.MinRepos when that is not 0 and to the client's default of 5
\* when it is 0.
C27_FilterIsMinReposOrDefault ==
  \A i \in 1..Len(searchLog) :
    /\ AttemptCarriesQuery(i)
    /\ strategy.MinRepos # 0 => searchLog[i].request.repos = strategy.MinRepos
    /\ strategy.MinRepos = 0 => searchLog[i].request.repos = 5
    /\ \A j \in 1..Len(searchLog) : SameButQuery(i, j)

\* a primary and a fallback with another location were sent for a strategy
\* whose minimum repository count is 0, both with the filter 5
C27_Witness ==
  /\ Len(searchLog) = 2
  /\ strategy.MinRepos = 0
  /\ searchLog[1].input.Location # searchLog[2].input.Location
  /\ searchLog[1].input.MinRepos = 0
  /\ searchLog[1].request.repos = 5
  /\ searchLog[2].request.repos = 5

\* C28: however many users the backend reports, at most 15 candidates are
\* handed to enrichment, so TotalProfilesFound <= 15, at most 15 repository
\* fetches are made, each asking for at most 10 repositories, and Candidates
\* is no longer than TotalProfilesFound.
C28_AtMostFifteenEnriched ==
  /\ Len(candidates) <= 15
  /\ Len(fetchLog) <= 15
  /\ Len(fetchLog) <= Len(candidates)
  /\ \A i \in 1..Len(fetchLog) : fetchLog[i].maxRepos <= 10
  /\ Len(enriched) <= Len(candidates)
  /\ AcquisitionReturned =>
       /\ enrichedCandidates.SearchMetadata.TotalProfilesFound <= 15
       /\ Len(enrichedCandidates.Candidates)
            <= enrichedCandidates.SearchMetadata.TotalProfilesFound

\* the backend reported 17 users, all with a profile: 15 were fetched, the
\* fetch of one of them failed and 14 are in Candidates
C28_Witness ==
  /\ AcquisitionReturned
  /\ callArgs.fn = "findAndEnrichCandidates"
  /\ Len(callArgs.response.items) = 17
  /\ callArgs.response.detailFails = {}
  /\ enrichedCandidates.SearchMetadata.TotalProfilesFound = 15
  /\ Len(fetchLog) = 15
  /\ Len(enrichedCandidates.Candidates) = 14

\* createFallbackResult, called on its own, returned
FallbackReturned ==
  callPc = "return" /\ callResult.fn = "createFallbackResult"

\* the enriched candidates createFallbackResult was given
GivenEnriched ==
  callArgs.candidates.Candidates

\* min(10, n) for the n candidates given
PresentedCount ==
  IF Len(GivenEnriched) < 10 THEN Len(GivenEnriched) ELSE 10

\* the enriched candidate of this login
GivenNamed(login) ==
  GivenEnriched[CHOOSE i \in 1..Len(GivenEnriched) : GivenEnriched[i].Username = login]

\* C29: createFallbackResult presents exactly the first min(10, n) enriched
\* candidates in enrichment order, whatever their scores, CandidatesPresented
\* is that number, TotalCandidatesFound is the TotalProfilesFound of the
\* metadata, and the TopRelevantProjects of each candidate are its
\* RelevantRepositories, one for one.
C29_FallbackPresentsFirstTen ==
  FallbackReturned =>
    /\ Len(ReturnedList) = PresentedCount
    /\ {ReturnedList[i].Username : i \in 1..Len(ReturnedList)}
         = {GivenEnriched[i].Username : i \in 1..PresentedCount}
    /\ callResult.result.Summary.CandidatesPresented = PresentedCount
    /\ callResult.result.Summary.TotalCandidatesFound
         = callArgs.candidates.SearchMetadata.TotalProfilesFound
    /\ \A i \in 1..Len(ReturnedList) :
         LET repos == GivenNamed(ReturnedList[i].Username).RelevantRepositories
             projects == ReturnedList[i].TopRelevantProjects
         IN /\ Len(projects) = Len(repos)
            /\ \A j \in 1..Len(repos) :
                 /\ projects[j].Name = repos[j].Name
                 /\ projects[j].WhyRelevant = repos[j].RelevanceReason

\* of 13 candidates given, the 12th and 13th have a relevant repository and
\* the 3rd has none: the 3rd is presented, without projects, the last two
\* are not, and the summary reports 10 presented of 14 found
C29_Witness ==
  /\ FallbackReturned
  /\ Len(GivenEnriched) = 13
  /\ GivenEnriched[12].RelevantRepositories # <<>>
  /\ GivenEnriched[13].RelevantRepositories # <<>>
  /\ GivenEnriched[3].RelevantRepositories = <<>>
  /\ \E i \in 1..Len(ReturnedList) :
       /\ ReturnedList[i].Username = GivenEnriched[3].Username
       /\ ReturnedList[i].TopRelevantProjects = <<>>
  /\ \A i \in 1..Len(ReturnedList) : ReturnedList[i].Username # GivenEnriched[13].Username
  /\ callResult.result.Summary.CandidatesPresented = 10
  /\ callResult.result.Summary.TotalCandidatesFound = 14

\* the score, in thousandths, the claim gives a candidate with these
\* relevant repositories
ClaimedInitialScore(relevantRepos) ==
  IF relevantRepos = <<>> THEN 500 ELSE 700

\* C30: every enriched candidate's InitialMatchScore is 0.5 when it has no
\* relevant repository and 0.7 when it has at least one, whatever the other
\* candidates of the run are; it is never zero and lies in [0, 1]; and the
\* FinalMatchScore a degraded result gives the candidate is 50 or 70
\* accordingly.
C30_InitialScoreHalfOrSevenTenths ==
  /\ \A i \in 1..Len(enriched) :
       /\ enriched[i].InitialMatchScore = ClaimedInitialScore(enriched[i].RelevantRepositories)
       /\ enriched[i].InitialMatchScore > 0
       /\ enriched[i].InitialMatchScore <= 1000
  /\ RankingFailed =>
       \A i \in 1..Len(finalResult.TopCandidates) :
         LET rc == finalResult.TopCandidates[i]
         IN /\ HasEnrichedNamed(rc.Username)
            /\ rc.FinalMatchScore
                 = 100 * ClaimedInitialScore(EnrichedNamed(rc.Username).RelevantRepositories)
            /\ rc.FinalMatchScore \in {50000, 70000}

\* a candidate with two relevant repositories scores 0.7 and one with none
\* 0.5, and the degraded result gives them 70 and 50
C30_Witness ==
  /\ RankingFailed
  /\ Len(enriched) = 2
  /\ \E i, j \in 1..2 :
       /\ Len(enriched[i].RelevantRepositories) = 2
       /\ enriched[i].InitialMatchScore = 700
       /\ enriched[j].RelevantRepositories = <<>>
       /\ enriched[j].InitialMatchScore = 500
       /\ \E k \in 1..Len(finalResult.TopCandidates) :
            /\ finalResult.TopCandidates[k].Username = enriched[i].Username
            /\ finalResult.TopCandidates[k].FinalMatchScore = 70000
====
